---- MODULE Spec2Model ----
(***************************************************************************)
(* Model of handler.py: one invocation of the RunPod handler, which        *)
(* validates the job input, calls the Imagen predict endpoint once and      *)
(* normalises the response.  Python values are tagged records               *)
(* [type, val]; Python dicts are functions whose DOMAIN is the key set.     *)
(***************************************************************************)
EXTENDS Integers, Sequences, FiniteSets, TLC

VARIABLES
    GEMINI_API_KEY,     \* process-wide credential, "" when the variable is not set
    event,              \* the job given to handler
    pc,                 \* position of the invocation in handler / generate_image
    exc,                \* the exception in flight
    input_data,         \* handler local
    prompt, model, sample_count, aspect_ratio, negative_prompt, person_generation,
    model_name, payload,    \* generate_image locals
    response,           \* what requests.post returned
    data, predictions, images, idx,   \* generate_image locals of the 200 path
    posts,              \* the outbound requests made so far (the transport's record)
    result,             \* handler local: what generate_image returned
    retval              \* the value handler returned to its caller

vars == <<GEMINI_API_KEY, event, pc, exc, input_data, prompt, model, sample_count,
          aspect_ratio, negative_prompt, person_generation, model_name, payload,
          response, data, predictions, images, idx, posts, result, retval>>

----------------------------------------------------------------------------
(* Bounds of the model *)

SampleCountMargin == 1      \* sample_count ranges over (1 - margin)..(4 + margin)
MaxPredictions == 2         \* the longest predictions list of a response

----------------------------------------------------------------------------
(* Python values *)

Str(s)  == [type |-> "str",  val |-> s]
Int_(i) == [type |-> "int",  val |-> i]
List(s) == [type |-> "list", val |-> s]
Dict(f) == [type |-> "dict", val |-> f]
None    == [type |-> "NoneType", val |-> ""]
EmptyDict == Dict([k \in {} |-> None])

\* Python truth value of v (used by "if not prompt", "if negative_prompt", ...)
Truthy(v) ==
    CASE v.type = "str"  -> v.val # ""
      [] v.type = "int"  -> v.val # 0
      [] v.type = "list" -> Len(v.val) > 0
      [] v.type = "dict" -> DOMAIN v.val # {}
      [] OTHER           -> FALSE

\* d.get(k, default) on a dict d
Get(d, k, default) == IF k \in DOMAIN d.val THEN d.val[k] ELSE default

Hashable(v) == v.type \notin {"list", "dict"}

Exc(cls, msg) == [cls |-> cls, msg |-> msg]
NoExc == Exc("", "")

\* x.get on a value that is not a dict
NoGetAttr(v) == Exc("AttributeError", "'" \o v.type \o "' object has no attribute 'get'")

\* the classes each exception class derives from (itself included)
Bases(cls) ==
    CASE cls = "Timeout"                 -> {"Timeout", "RequestException", "Exception"}
      [] cls = "ConnectionError"         -> {"ConnectionError", "RequestException", "Exception"}
      [] cls = "RequestsJSONDecodeError" -> {"RequestsJSONDecodeError", "RequestException",
                                            "ValueError", "Exception"}
      [] OTHER                           -> {cls, "Exception"}

----------------------------------------------------------------------------
(* Module constants *)

IMAGEN_MODELS ==
    [k \in {"imagen-4-ultra", "imagen-4", "imagen-3"} |->
        IF k = "imagen-3" THEN "imagen-3.0-generate-002"
                          ELSE "imagen-4.0-generate-preview-06-06"]

valid_ratios == {"1:1", "3:4", "4:3", "9:16", "16:9"}
valid_person_gen == {"dont_allow", "allow_adult", "allow_all"}

----------------------------------------------------------------------------
(* Inputs *)

Unset == [type |-> "unset", val |-> ""]

\* the dict holding the keys of g that are given a value
Present(g) == [k \in {j \in DOMAIN g : g[j] # Unset} |-> g[k]]

InputChoices ==
    [prompt            |-> {None, Str(""), Str("a cat")},
     model             |-> {Str("imagen-4-ultra"), Str("dall-e"), List(<<>>)},
     sample_count      |-> {Int_(i) : i \in (1 - SampleCountMargin)..(4 + SampleCountMargin)} \cup {Str("2"), None},
     aspect_ratio      |-> {Str("16:9"), Str("2:1")},
     negative_prompt   |-> {Str("blurry")},
     person_generation |-> {Str("allow_all"), Str("everyone")}]

\* every input mapping: each key is absent or carries one of its choices
Inputs ==
    { Dict(Present(g)) :
        g \in [prompt            : InputChoices.prompt \cup {Unset},
               model             : InputChoices.model \cup {Unset},
               sample_count      : InputChoices.sample_count \cup {Unset},
               aspect_ratio      : InputChoices.aspect_ratio \cup {Unset},
               negative_prompt   : InputChoices.negative_prompt \cup {Unset},
               person_generation : InputChoices.person_generation \cup {Unset}] }

Events ==
    { Dict([input |-> i]) : i \in Inputs }
      \cup { EmptyDict, Dict([input |-> Str("a cat")]), List(<<>>) }

Init ==
    /\ GEMINI_API_KEY \in {"", "key"}
    /\ event \in Events
    /\ pc = "handler"
    /\ exc = NoExc
    /\ input_data = Unset
    /\ prompt = Unset /\ model = Unset /\ sample_count = Unset
    /\ aspect_ratio = Unset /\ negative_prompt = Unset /\ person_generation = Unset
    /\ model_name = "" /\ payload = Unset
    /\ response = Unset
    /\ data = Unset /\ predictions = Unset /\ images = <<>> /\ idx = 0
    /\ posts = <<>>
    /\ result = Unset
    /\ retval = Unset

----------------------------------------------------------------------------
(* Upstream responses *)

\* the prediction objects the upstream may send
PredictionChoices ==
    { Dict([bytesBase64Encoded |-> Str("AAA")]),
      Dict([bytesBase64Encoded |-> Str("BBB")]),
      Dict([bytesBase64Encoded |-> Str(""),
            image |-> Dict([bytesBase64Encoded |-> Str("DDD")])]),
      Dict([image |-> Str("CCC")]),
      Dict([image |-> Dict([bytesBase64Encoded |-> Str("DDD")])]),
      Dict([image |-> Dict([mimeType |-> Str("image/png")])]) }

SeqsUpTo(S, n) == UNION { [1..k -> S] : k \in 0..n }

\* the JSON documents the upstream may send: predictions that are a list of
\* objects, a list holding a number, or a number; no predictions; a JSON array
DataChoices ==
    { Dict([predictions |-> List(ps)]) : ps \in SeqsUpTo(PredictionChoices, MaxPredictions) }
      \cup { Dict([predictions |-> List(<<Dict([bytesBase64Encoded |-> Str("AAA")]),
                                          Int_(7)>>)]),
             Dict([predictions |-> Int_(3)]),
             Dict([error |-> Str("quota exceeded")]),
             List(<<>>) }

\* a response body: text that is a JSON document, or text that is not
Bodies == { [json |-> d] : d \in DataChoices } \cup { [raw |-> "<html>Bad Gateway</html>"] }

StatusCodes == {200, 204, 302, 404, 500}

\* the bodies sent with a status other than 200: an error page, an error document,
\* and a document that would parse as one image
ErrorBodies ==
    { [raw |-> "<html>Bad Gateway</html>"],
      [json |-> Dict([error |-> Str("quota exceeded")])],
      [json |-> Dict([predictions |-> List(<<Dict([bytesBase64Encoded |-> Str("AAA")])>>)])] }

Responses ==
    [status_code : {200}, text : Bodies]
      \cup [status_code : StatusCodes \ {200}, text : ErrorBodies]

----------------------------------------------------------------------------
(* handler *)

\* raise e at a place covered only by handler's try
RaiseInHandler(e) == exc' = e /\ pc' = "handler_except"

\* raise e inside generate_image's try block
RaiseInTry(e) == exc' = e /\ pc' = "generate_image_except"

\* return v from handler
Return(v) == retval' = v /\ pc' = "returned"

\* line 152: input_data = event.get("input", {})
GetInput ==
    /\ pc = "handler"
    /\ IF event.type = "dict"
         THEN /\ input_data' = Get(event, "input", EmptyDict)
              /\ pc' = "get_prompt"
              /\ UNCHANGED exc
         ELSE /\ RaiseInHandler(NoGetAttr(event))
              /\ UNCHANGED input_data
    /\ UNCHANGED <<GEMINI_API_KEY, event, prompt, model, sample_count, aspect_ratio,
                   negative_prompt, person_generation, model_name, payload, response,
                   data, predictions, images, idx, posts, result, retval>>

\* variant of line 156: "if prompt is None"
MissingPrompt_OnlyNone(p) == p = None

\* line 156: if not prompt
MissingPrompt(p) == ~Truthy(p)

\* lines 155-157: the required parameter
GetPrompt ==
    /\ pc = "get_prompt"
    /\ IF input_data.type # "dict"
         THEN /\ RaiseInHandler(NoGetAttr(input_data))
              /\ UNCHANGED <<prompt, retval>>
         ELSE /\ prompt' = Get(input_data, "prompt", None)
              /\ IF MissingPrompt(prompt')
                   THEN Return([error |-> "Missing 'prompt' in input"])
                   ELSE pc' = "get_options" /\ UNCHANGED retval
              /\ UNCHANGED exc
    /\ UNCHANGED <<GEMINI_API_KEY, event, input_data, model, sample_count, aspect_ratio,
                   negative_prompt, person_generation, model_name, payload, response,
                   data, predictions, images, idx, posts, result>>

\* lines 160-164: optional parameters with defaults
GetOptions ==
    /\ pc = "get_options"
    /\ model' = Get(input_data, "model", Str("imagen-3"))
    /\ sample_count' = Get(input_data, "sample_count", Int_(1))
    /\ aspect_ratio' = Get(input_data, "aspect_ratio", Str("1:1"))
    /\ negative_prompt' = Get(input_data, "negative_prompt", Str(""))
    /\ person_generation' = Get(input_data, "person_generation", Str("allow_adult"))
    /\ pc' = "validate_sample_count"
    /\ UNCHANGED <<GEMINI_API_KEY, event, exc, input_data, prompt, model_name, payload,
                   response, data, predictions, images, idx, posts, result, retval>>

\* Python's min(a, b) and max(a, b) on integers
min(a, b) == IF b < a THEN b ELSE a
max(a, b) == IF b > a THEN b ELSE a

\* variant of line 170: the upper limit is left out
Clamp_NoUpper(n) == max(1, n)

\* line 170: max(1, min(4, sample_count))
Clamp(n) == max(1, min(4, n))

\* lines 167-170
ValidateSampleCount ==
    /\ pc = "validate_sample_count"
    /\ IF model = Str("imagen-4-ultra")
         THEN /\ sample_count' = Int_(1)
              /\ pc' = "validate_enums"
              /\ UNCHANGED exc
         ELSE IF sample_count.type = "int"
                THEN /\ sample_count' = Int_(Clamp(sample_count.val))
                     /\ pc' = "validate_enums"
                     /\ UNCHANGED exc
                ELSE /\ RaiseInHandler(Exc("TypeError",
                            "'<' not supported between instances of '"
                               \o sample_count.type \o "' and 'int'"))
                     /\ UNCHANGED sample_count
    /\ UNCHANGED <<GEMINI_API_KEY, event, input_data, prompt, model, aspect_ratio,
                   negative_prompt, person_generation, model_name, payload, response,
                   data, predictions, images, idx, posts, result, retval>>

\* x in a list of strings
InStrings(x, S) == x.type = "str" /\ x.val \in S

\* variant of lines 173-175: the value is used as given
CoerceAspectRatio_AsGiven(ar) == ar

\* lines 173-175
CoerceAspectRatio(ar) == IF InStrings(ar, valid_ratios) THEN ar ELSE Str("1:1")

\* lines 178-180
CoercePersonGeneration(pg) ==
    IF InStrings(pg, valid_person_gen) THEN pg ELSE Str("allow_adult")

\* lines 172-180, then the call of generate_image at line 183
ValidateEnums ==
    /\ pc = "validate_enums"
    /\ aspect_ratio' = CoerceAspectRatio(aspect_ratio)
    /\ person_generation' = CoercePersonGeneration(person_generation)
    /\ pc' = "generate_image"
    /\ UNCHANGED <<GEMINI_API_KEY, event, exc, input_data, prompt, model, sample_count,
                   negative_prompt, model_name, payload, response, data, predictions,
                   images, idx, posts, result, retval>>

\* lines 193-198: log the outcome and return it
LogResult ==
    /\ pc = "log_result"
    /\ IF "success" \in DOMAIN result /\ result.success
         THEN "count" \in DOMAIN result       \* result['count'] is read
         ELSE TRUE
    /\ Return(result)
    /\ UNCHANGED <<GEMINI_API_KEY, event, exc, input_data, prompt, model, sample_count,
                   aspect_ratio, negative_prompt, person_generation, model_name, payload,
                   response, data, predictions, images, idx, posts, result>>

\* variant of line 200: "except ValueError as e"
HandlerCatches_ValueError(cls) == "ValueError" \in Bases(cls)

\* line 200: the classes handler's except clause catches
HandlerCatches(cls) == "Exception" \in Bases(cls)

\* lines 200-201: except Exception as e
HandlerExcept ==
    /\ pc = "handler_except"
    /\ IF HandlerCatches(exc.cls)
         THEN Return([error |-> "Handler error: " \o exc.msg]) /\ exc' = NoExc
         ELSE pc' = "propagated" /\ UNCHANGED <<retval, exc>>
    /\ UNCHANGED <<GEMINI_API_KEY, event, input_data, prompt, model, sample_count,
                   aspect_ratio, negative_prompt, person_generation, model_name, payload,
                   response, data, predictions, images, idx, posts, result>>

----------------------------------------------------------------------------
(* generate_image *)

\* return v from generate_image to line 183 of handler
ReturnToHandler(v) == result' = v /\ pc' = "log_result"

\* variant of line 30: the check is left out
NoKey_Unchecked(key) == FALSE

\* line 30: if not GEMINI_API_KEY
NoKey(key) == key = ""

\* lines 30-31: the credential check
CheckKey ==
    /\ pc = "generate_image"
    /\ IF NoKey(GEMINI_API_KEY)
         THEN ReturnToHandler([error |-> "Missing GEMINI_API_KEY environment variable"])
         ELSE pc' = "build_payload" /\ UNCHANGED result
    /\ UNCHANGED <<GEMINI_API_KEY, event, exc, input_data, prompt, model, sample_count,
                   aspect_ratio, negative_prompt, person_generation, model_name, payload,
                   response, data, predictions, images, idx, posts, retval>>

\* lines 45-60: the request body
Payload(p, sc, ar, np, pg) ==
    [instances  |-> <<[prompt |-> p]>>,
     parameters |-> IF Truthy(np)
                      THEN [sampleCount |-> sc, aspectRatio |-> ar,
                            personGeneration |-> pg, negativePrompt |-> np]
                      ELSE [sampleCount |-> sc, aspectRatio |-> ar,
                            personGeneration |-> pg]]

\* lines 34-60: model name and payload; these lines are outside generate_image's try
BuildPayload ==
    /\ pc = "build_payload"
    /\ IF ~Hashable(model)
         THEN /\ RaiseInHandler(Exc("TypeError", "unhashable type: '" \o model.type \o "'"))
              /\ UNCHANGED <<model_name, payload>>
         ELSE /\ model_name' = IF model.type = "str" /\ model.val \in DOMAIN IMAGEN_MODELS
                                 THEN IMAGEN_MODELS[model.val]
                                 ELSE IMAGEN_MODELS["imagen-3"]
              /\ payload' = Payload(prompt, sample_count, aspect_ratio,
                                    negative_prompt, person_generation)
              /\ pc' = "post"
              /\ UNCHANGED exc
    /\ UNCHANGED <<GEMINI_API_KEY, event, input_data, prompt, model, sample_count,
                   aspect_ratio, negative_prompt, person_generation, response, data,
                   predictions, images, idx, posts, result, retval>>

\* line 72
timeout == 90

\* lines 68-73: requests.post; the upstream answers, or the wait or the transport fails
Post ==
    /\ pc = "post"
    /\ posts' = Append(posts, [model_name |-> model_name, key |-> GEMINI_API_KEY,
                               json |-> payload, timeout |-> timeout])
    /\ \/ /\ RaiseInTry(Exc("Timeout", "Read timed out."))
          /\ UNCHANGED response
       \/ /\ RaiseInTry(Exc("ConnectionError", "Connection refused"))
          /\ UNCHANGED response
       \/ /\ response' \in Responses
          /\ pc' = "check_status"
          /\ UNCHANGED exc
    /\ UNCHANGED <<GEMINI_API_KEY, event, input_data, prompt, model, sample_count,
                   aspect_ratio, negative_prompt, person_generation, model_name, payload,
                   data, predictions, images, idx, result, retval>>

\* variant of line 76: "if response.status_code >= 400"
StatusFailed_From400(code) == code >= 400

\* line 76: if response.status_code != 200
StatusFailed(code) == code # 200

\* lines 76-81
CheckStatus ==
    /\ pc = "check_status"
    /\ IF StatusFailed(response.status_code)
         THEN ReturnToHandler(
                  [error   |-> "API returned status " \o ToString(response.status_code),
                   details |-> response.text])
         ELSE pc' = "json" /\ UNCHANGED result
    /\ UNCHANGED <<GEMINI_API_KEY, event, exc, input_data, prompt, model, sample_count,
                   aspect_ratio, negative_prompt, person_generation, model_name, payload,
                   response, data, predictions, images, idx, posts, retval>>

\* line 83: data = response.json().  A body that is not JSON raises
\* requests.exceptions.JSONDecodeError (a RequestException) or, with requests
\* before 2.27, a plain ValueError; the installed version decides.
ParseJson ==
    /\ pc = "json"
    /\ IF "json" \in DOMAIN response.text
         THEN /\ data' = response.text.json
              /\ pc' = "get_predictions"
              /\ UNCHANGED exc
         ELSE /\ \E cls \in {"RequestsJSONDecodeError", "ValueError"} :
                    RaiseInTry(Exc(cls, "Expecting value: line 1 column 1 (char 0)"))
              /\ UNCHANGED data
    /\ UNCHANGED <<GEMINI_API_KEY, event, input_data, prompt, model, sample_count,
                   aspect_ratio, negative_prompt, person_generation, model_name, payload,
                   response, predictions, images, idx, posts, result, retval>>

\* lines 86-95
GetPredictions ==
    /\ pc = "get_predictions"
    /\ IF data.type # "dict"
         THEN /\ RaiseInTry(NoGetAttr(data))
              /\ UNCHANGED <<predictions, images, idx, result>>
         ELSE /\ predictions' = Get(data, "predictions", List(<<>>))
              /\ IF ~Truthy(predictions')
                   THEN /\ ReturnToHandler([error |-> "No images generated",
                                            response |-> data])
                        /\ UNCHANGED <<images, idx>>
                   ELSE /\ images' = <<>>
                        /\ idx' = 0
                        /\ pc' = "for_prediction"
                        /\ UNCHANGED result
              /\ UNCHANGED exc
    /\ UNCHANGED <<GEMINI_API_KEY, event, input_data, prompt, model, sample_count,
                   aspect_ratio, negative_prompt, person_generation, model_name, payload,
                   response, data, posts, retval>>

\* variant of lines 98-106: the image wrapper is looked at first
Extract_ImageFirst(prediction) ==
    IF "image" \in DOMAIN prediction.val
         /\ prediction.val["image"].type = "dict"
         /\ "bytesBase64Encoded" \in DOMAIN prediction.val["image"].val
      THEN <<prediction.val["image"].val["bytesBase64Encoded"]>>
      ELSE IF "bytesBase64Encoded" \in DOMAIN prediction.val
             THEN <<prediction.val["bytesBase64Encoded"]>>
             ELSE IF "image" \in DOMAIN prediction.val
                       /\ prediction.val["image"].type = "str"
                    THEN <<prediction.val["image"]>>
                    ELSE <<>>

\* lines 98-106: what one prediction dict adds to images
Extract(prediction) ==
    IF "bytesBase64Encoded" \in DOMAIN prediction.val
      THEN <<prediction.val["bytesBase64Encoded"]>>
      ELSE IF "image" \in DOMAIN prediction.val
             THEN LET img_data == prediction.val["image"] IN
                  IF img_data.type = "dict" /\ "bytesBase64Encoded" \in DOMAIN img_data.val
                    THEN <<img_data.val["bytesBase64Encoded"]>>
                    ELSE IF img_data.type = "str" THEN <<img_data>> ELSE <<>>
             ELSE <<>>

\* lines 96-106: one iteration of the loop over predictions
ForPrediction ==
    /\ pc = "for_prediction"
    /\ IF predictions.type # "list"
         THEN /\ RaiseInTry(Exc("TypeError",
                                "'" \o predictions.type \o "' object is not iterable"))
              /\ UNCHANGED <<images, idx>>
         ELSE /\ idx < Len(predictions.val)
              /\ LET prediction == predictions.val[idx + 1] IN
                 IF prediction.type # "dict"
                   THEN /\ RaiseInTry(Exc("TypeError", "argument of type '"
                                            \o prediction.type \o "' is not iterable"))
                        /\ UNCHANGED <<images, idx>>
                   ELSE /\ images' = images \o Extract(prediction)
                        /\ idx' = idx + 1
                        /\ UNCHANGED <<pc, exc>>
    /\ UNCHANGED <<GEMINI_API_KEY, event, input_data, prompt, model, sample_count,
                   aspect_ratio, negative_prompt, person_generation, model_name, payload,
                   response, data, predictions, posts, result, retval>>

\* variant of lines 109-112: the failure also reports an empty image list
ExtractFailure_WithImages(d) ==
    [error |-> "Could not extract images from response", response |-> d,
     images |-> <<>>, count |-> 0]

\* lines 109-112
ExtractFailure(d) == [error |-> "Could not extract images from response", response |-> d]

\* lines 114-122
Success(p, np, mn, ar, imgs) ==
    [success         |-> TRUE,
     prompt          |-> p,
     negative_prompt |-> np,
     model           |-> mn,
     aspect_ratio    |-> ar,
     images          |-> imgs,
     count           |-> Len(imgs)]

\* lines 108-122: after the loop
Finish ==
    /\ pc = "for_prediction"
    /\ predictions.type = "list"
    /\ idx = Len(predictions.val)
    /\ IF images = <<>>
         THEN ReturnToHandler(ExtractFailure(data))
         ELSE ReturnToHandler(Success(prompt, negative_prompt, model_name,
                                      aspect_ratio, images))
    /\ UNCHANGED <<GEMINI_API_KEY, event, exc, input_data, prompt, model, sample_count,
                   aspect_ratio, negative_prompt, person_generation, model_name, payload,
                   response, data, predictions, images, idx, posts, retval>>

\* variant of lines 124-131: a timeout is answered by posting once more
GenerateImageExcept_Retry ==
    /\ pc = "generate_image_except"
    /\ IF "Timeout" \in Bases(exc.cls) /\ Len(posts) < 2
         THEN pc' = "post" /\ exc' = NoExc /\ UNCHANGED result
         ELSE IF "RequestException" \in Bases(exc.cls)
                THEN ReturnToHandler([error |-> "Request failed: " \o exc.msg])
                       /\ exc' = NoExc
                ELSE ReturnToHandler([error |-> "Unexpected error: " \o exc.msg])
                       /\ exc' = NoExc
    /\ UNCHANGED <<GEMINI_API_KEY, event, input_data, prompt, model, sample_count,
                   aspect_ratio, negative_prompt, person_generation, model_name, payload,
                   response, data, predictions, images, idx, posts, retval>>

\* lines 124-131: the except clauses of generate_image, first match wins
GenerateImageExcept ==
    /\ pc = "generate_image_except"
    /\ IF "Timeout" \in Bases(exc.cls)
         THEN ReturnToHandler([error |-> "Request timeout after 90 seconds"]) /\ exc' = NoExc
         ELSE IF "RequestException" \in Bases(exc.cls)
                THEN ReturnToHandler([error |-> "Request failed: " \o exc.msg])
                       /\ exc' = NoExc
                ELSE IF "Exception" \in Bases(exc.cls)
                       THEN ReturnToHandler([error |-> "Unexpected error: " \o exc.msg])
                              /\ exc' = NoExc
                       ELSE RaiseInHandler(exc) /\ UNCHANGED result
    /\ UNCHANGED <<GEMINI_API_KEY, event, input_data, prompt, model, sample_count,
                   aspect_ratio, negative_prompt, person_generation, model_name, payload,
                   response, data, predictions, images, idx, posts, retval>>

Next ==
    \/ GetInput \/ GetPrompt \/ GetOptions \/ ValidateSampleCount \/ ValidateEnums
    \/ CheckKey \/ BuildPayload \/ Post \/ CheckStatus \/ ParseJson \/ GetPredictions
    \/ ForPrediction \/ Finish \/ GenerateImageExcept
    \/ LogResult \/ HandlerExcept

Spec == Init /\ [][Next]_vars

\* the invocation is a sequential program: it keeps running until it returns
LiveSpec == Spec /\ WF_vars(Next)

----------------------------------------------------------------------------
(* Properties *)

IsDict(v) == v.type = "dict"

\* the job carries an input mapping (a job without "input" has the empty one)
InputIsMapping == IsDict(event) /\ IsDict(Get(event, "input", EmptyDict))
TheInput == Get(event, "input", EmptyDict)
Given(k) == k \in DOMAIN TheInput.val

Returned == pc = "returned"
KeyIsSet == GEMINI_API_KEY # ""

InputHasNoPrompt == InputIsMapping /\ (~Given("prompt") \/ TheInput.val["prompt"] = Str(""))
InputHasPrompt ==
    /\ InputIsMapping /\ Given("prompt")
    /\ TheInput.val["prompt"].type = "str" /\ TheInput.val["prompt"].val # ""

InputModelIsUltra == Given("model") /\ TheInput.val["model"] = Str("imagen-4-ultra")
\* the model can be looked up in IMAGEN_MODELS: it is not a list or a mapping
InputModelUsable == ~Given("model") \/ TheInput.val["model"].type \notin {"list", "dict"}
InputSampleCountIsInteger == Given("sample_count") /\ TheInput.val["sample_count"].type = "int"
\* the clamp of line 170 can be computed: the count is absent, a number, or not looked at
InputSampleCountUsable ==
    ~Given("sample_count") \/ InputSampleCountIsInteger \/ InputModelIsUltra

MissingPromptError == [error |-> "Missing 'prompt' in input"]
MissingCredentialError == [error |-> "Missing GEMINI_API_KEY environment variable"]
TimeoutError == [error |-> "Request timeout after 90 seconds"]
SuccessFields == {"prompt", "model", "aspect_ratio", "negative_prompt", "images", "count"}
IsSuccess(r) == "success" \in DOMAIN r
IsFailure(r) == "error" \in DOMAIN r

\* C1: a job whose input has no prompt, or an empty one, is answered with the
\* missing-prompt error, and no outbound call is made during the invocation,
\* whatever the other fields and the credential are.
C1_MissingPromptFailsFast ==
    InputHasNoPrompt =>
        /\ posts = <<>>
        /\ Returned => retval = MissingPromptError

C1_Witness ==
    /\ Returned /\ KeyIsSet /\ InputIsMapping
    /\ Given("prompt") /\ TheInput.val["prompt"] = Str("")
    /\ Given("model") /\ Given("sample_count")
    /\ retval = MissingPromptError

\* C2 as stated: with a non-empty prompt and the credential unset the result is
\* the missing-credential error and no outbound call is made, for every
\* combination of the other input fields.
C2_AsStated ==
    (InputHasPrompt /\ ~KeyIsSet) =>
        /\ posts = <<>>
        /\ Returned => retval = MissingCredentialError

\* C2 amended: with a non-empty prompt and the credential unset no outbound call
\* is made for any combination of the other fields; the result is the
\* missing-credential error when sample_count is absent or a number or the
\* model is "imagen-4-ultra", and the handler error of the failed comparison
\* otherwise.
C2_MissingCredential ==
    (InputHasPrompt /\ ~KeyIsSet) =>
        /\ posts = <<>>
        /\ Returned =>
             IF InputSampleCountUsable
               THEN retval = MissingCredentialError
               ELSE retval = [error |->
                      "Handler error: '<' not supported between instances of '"
                         \o TheInput.val["sample_count"].type \o "' and 'int'"]

C2_Witness ==
    /\ Returned /\ InputHasPrompt /\ ~KeyIsSet
    /\ Given("sample_count") /\ Given("model") /\ TheInput.val["model"] = List(<<>>)
    /\ retval = MissingCredentialError

\* C3: every invocation ends by returning a mapping with an error field or the
\* success fields to its caller; no exception leaves handler.
C3_AlwaysReturns ==
    /\ [](pc # "propagated")
    /\ <>Returned
    /\ [](Returned => (IsFailure(retval) \/ SuccessFields \subseteq DOMAIN retval))

C3_Witness ==
    /\ Returned
    /\ retval = [error |-> "Handler error: unhashable type: 'list'"]

\* C4: a returned result has either all the success fields and no error field, or
\* an error field and none of the success fields.
C4_ExactlyOneShape ==
    Returned =>
        \/ SuccessFields \subseteq DOMAIN retval /\ ~IsFailure(retval)
        \/ IsFailure(retval) /\ SuccessFields \cap DOMAIN retval = {}

C4_Witness ==
    /\ Returned /\ IsSuccess(retval) /\ Len(retval.images) = 2
    /\ retval.negative_prompt = Str("blurry")

\* C5 as stated: at most one outbound POST per invocation, and exactly one when
\* the prompt is non-empty and the credential is set.
C5_AsStated ==
    /\ Len(posts) <= 1
    /\ (Returned /\ InputHasPrompt /\ KeyIsSet) => Len(posts) = 1

\* C5 amended: at most one outbound POST per invocation; exactly one when the
\* prompt is non-empty, the credential is set, the model is not a list or mapping
\* and sample_count is absent, a number or unused (model "imagen-4-ultra"), and
\* none when validation fails; a timeout, a transport error or a status other
\* than 200 is answered with its failure value after that one call.
C5_OnePost ==
    /\ Len(posts) <= 1
    /\ (Returned /\ InputHasPrompt /\ KeyIsSet) =>
          Len(posts) = IF InputModelUsable /\ InputSampleCountUsable THEN 1 ELSE 0
    /\ (Returned /\ retval \in {TimeoutError, [error |-> "Request failed: Connection refused"]})
          => Len(posts) = 1
    /\ (Returned /\ "details" \in DOMAIN retval) => Len(posts) = 1

C5_Witness ==
    /\ Returned /\ retval = TimeoutError /\ Len(posts) = 1

\* the sampleCount of the payload of an outbound call
SentSampleCount(i) == posts[i].json.parameters.sampleCount

\* C6: for an integer sample_count in the input, the sampleCount sent is in 1..4:
\* the input when that is in 1..4, 1 when it is below, 4 when it is above, and 1
\* for the model "imagen-4-ultra" whatever the input.
C6_SampleCountClamped ==
    \A i \in 1..Len(posts) :
        InputSampleCountIsInteger =>
            LET n == TheInput.val["sample_count"].val
                sent == SentSampleCount(i) IN
            /\ sent.type = "int"
            /\ sent.val \in 1..4
            /\ InputModelIsUltra => sent.val = 1
            /\ ~InputModelIsUltra =>
                 /\ n \in 1..4 => sent.val = n
                 /\ n < 1 => sent.val = 1
                 /\ n > 4 => sent.val = 4

C6_Witness ==
    /\ Len(posts) = 1 /\ InputSampleCountIsInteger /\ ~InputModelIsUltra
    /\ TheInput.val["sample_count"].val > 4
    /\ SentSampleCount(1) = Int_(4)

Ratios == {"1:1", "3:4", "4:3", "9:16", "16:9"}
PersonGenerations == {"dont_allow", "allow_adult", "allow_all"}
IsOneOf(v, S) == v.type = "str" /\ v.val \in S

\* C7: the aspectRatio and personGeneration of every outbound payload are members
\* of their sets: a valid input value unchanged, "1:1" and "allow_adult" for a
\* missing or invalid one; a success result carries the same aspect_ratio.
C7_EnumsCoerced ==
    /\ \A i \in 1..Len(posts) :
         LET sent == posts[i].json.parameters
             ar == Get(TheInput, "aspect_ratio", Str("1:1"))
             pg == Get(TheInput, "person_generation", Str("allow_adult")) IN
         /\ IsOneOf(sent.aspectRatio, Ratios)
         /\ IsOneOf(sent.personGeneration, PersonGenerations)
         /\ sent.aspectRatio = IF IsOneOf(ar, Ratios) THEN ar ELSE Str("1:1")
         /\ sent.personGeneration =
                IF IsOneOf(pg, PersonGenerations) THEN pg ELSE Str("allow_adult")
         /\ (Returned /\ IsSuccess(retval)) => retval.aspect_ratio = sent.aspectRatio

C7_Witness ==
    /\ Returned /\ IsSuccess(retval) /\ Len(posts) = 1
    /\ Given("aspect_ratio") /\ TheInput.val["aspect_ratio"] = Str("2:1")
    /\ Given("person_generation") /\ TheInput.val["person_generation"] = Str("allow_all")
    /\ retval.aspect_ratio = Str("1:1")

GotResponse == response # Unset
Non2xx == GotResponse /\ response.status_code \notin 200..299

\* C8: a response with a status outside 200..299 is answered with the
\* upstream-error failure carrying the status code and the raw body; its body is
\* never parsed, and no success result follows.
C8_UpstreamError ==
    Non2xx =>
        /\ data = Unset /\ predictions = Unset /\ images = <<>>
        /\ pc \notin {"json", "get_predictions", "for_prediction"}
        /\ Returned =>
             retval = [error   |-> "API returned status " \o ToString(response.status_code),
                       details |-> response.text]

C8_Witness ==
    /\ Returned /\ Non2xx /\ response.status_code = 500
    /\ "json" \in DOMAIN response.text
    /\ "predictions" \in DOMAIN response.text.json.val
    /\ retval.error = "API returned status 500"

\* C9: every success result has a non-empty images sequence that holds no empty
\* string.
C9_NoEmptyImage ==
    (Returned /\ IsSuccess(retval)) =>
        /\ retval.images # <<>>
        /\ \A i \in 1..Len(retval.images) : retval.images[i] # Str("")

\* the predictions of a 200 response, when they are a list of objects
PredictionsAreObjects ==
    /\ GotResponse /\ response.status_code = 200
    /\ "json" \in DOMAIN response.text
    /\ IsDict(response.text.json)
    /\ "predictions" \in DOMAIN response.text.json.val
    /\ response.text.json.val["predictions"].type = "list"
    /\ \A i \in 1..Len(response.text.json.val["predictions"].val) :
          IsDict(response.text.json.val["predictions"].val[i])
ThePredictions == response.text.json.val["predictions"].val

HasTopLevel(p) == "bytesBase64Encoded" \in DOMAIN p.val
HasWrapped(p) ==
    /\ "image" \in DOMAIN p.val
    /\ \/ p.val["image"].type = "str"
       \/ IsDict(p.val["image"]) /\ "bytesBase64Encoded" \in DOMAIN p.val["image"].val
Carries(p) == HasTopLevel(p) \/ HasWrapped(p)
Carried(p) ==
    IF HasTopLevel(p) THEN p.val["bytesBase64Encoded"]
    ELSE IF p.val["image"].type = "str" THEN p.val["image"]
    ELSE p.val["image"].val["bytesBase64Encoded"]
\* the strings carried by the predictions, in the order of the predictions
CarriedBy(ps) ==
    LET carrying == SelectSeq(ps, Carries) IN
    [i \in 1..Len(carrying) |-> Carried(carrying[i])]

\* C10: for a 200 response whose predictions are a list of objects, the images of
\* the success result are the strings the predictions carry, in their order, the
\* top-level bytesBase64Encoded before the image wrapper and predictions without
\* either skipped; count is the length of images.
C10_ImagesInOrder ==
    (Returned /\ PredictionsAreObjects /\ CarriedBy(ThePredictions) # <<>>) =>
        /\ IsSuccess(retval)
        /\ retval.images = CarriedBy(ThePredictions)
        /\ retval.count = Len(retval.images)

C10_Witness ==
    /\ Returned /\ PredictionsAreObjects
    /\ ThePredictions = <<Dict([bytesBase64Encoded |-> Str("AAA")]),
                          Dict([bytesBase64Encoded |-> Str("BBB")])>>
    /\ retval.images = <<Str("AAA"), Str("BBB")>>
    /\ retval.count = 2
====
